---- MODULE Spec2Model ----
(***************************************************************************)
(* Model of the log streaming hook useLogStream                            *)
(* (src/src/hooks/useLogStream.ts) of kubelog-viewer.                      *)
(*                                                                         *)
(* One hook instance is modelled: its React state (lines, isStreaming,     *)
(* isRetrying, error, isPaused), its refs (abortControllerRef,             *)
(* retryCountRef, retryTimeoutRef, readerRef, bufferRef), every invocation *)
(* of the async function startStream ("attempt") with the closure it runs  *)
(* in and its position, the response streams, the pending retry timers and *)
(* the microtask queue of the JavaScript event loop.                       *)
(* exportLogs is modelled by the documents it hands to the browser.        *)
(*                                                                         *)
(* An attempt and the connection it opens share one number. An attempt     *)
(* that is not running is "idle", a connection that does not exist (not    *)
(* opened yet, or ended) is "none".                                        *)
(*                                                                         *)
(* Event loop: a task (user call, effect, timer, network event) runs only  *)
(* when the microtask queue is empty; continuations of settled promises    *)
(* run from the microtask queue in FIFO order.                             *)
(*                                                                         *)
(* Text is a sequence of characters; the chunks are ASCII, for which       *)
(* TextDecoder.decode(value, {stream: true}) yields the same characters.   *)
(***************************************************************************)
EXTENDS Integers, Sequences, FiniteSets, TLC

\* ------------------------------------------------------------------ bounds
\* startStream invocations the model tracks at the same time: an invocation
\* that has returned, whose connection has ended and which nothing refers to
\* any more gives its place to the next one
MaxAttempts == 2
\* chunks delivered by all response streams together
MaxChunks == 2
\* (namespace, pod, time-filter) changes, the first selection included
MaxSessions == 2
\* calls of retry
MaxRetryCalls == 1
\* calls of pause, resume and clear
MaxCalls == 2
\* chunks of one connection in the line reassembly specification
MaxFeed == 4
\* lines a session holds when exportLogs is studied
MaxExportLines == 2
\* calls of exportLogs
MaxExports == 1

\* ------------------------------------------------------- program constants
MAX_RETRIES == 3
BASE_RETRY_DELAY == 1000

NL == "\n"
CR == "\r"
\* a text that matches \d{4}-\d{2}-\d{2}T\d{2}:\d{2}:\d{2}(?:\.\d+)?Z?
TS == "T"
Char == {"a", " ", NL, CR, TS}
\* String.prototype.trim() removes these from both ends
Whitespace == {" ", NL, CR}

\* the chunks a response stream may deliver (boundaries are arbitrary)
Chunks == { <<"a">>, <<NL>>, <<" ", NL>>, <<"a", NL, "a">> }
\* one complete line, and the chunks used where only completeness matters
LineChunk == <<"a", NL>>
LifeChunks == { <<"a">>, LineChunk }
\* whole lines: with a timestamp, without, with a timestamp and CR LF, and a
\* timestamp alone
ExportChunks == { <<TS, " ", "a", NL>>, <<"a", NL>>,
                  <<TS, " ", "a", CR, NL>>, <<TS, NL>> }

Att == 1..MaxAttempts

VARIABLES
  selected,            \* namespace && pod of the current render
  mounted,             \* the component using the hook is mounted
  lines,               \* useState<string[]>
  isStreaming,         \* useState
  isRetrying,          \* useState
  error,               \* useState: TRUE when an Error is stored
  isPaused,            \* useState
  abortControllerRef,  \* 0 = null, else the attempt whose controller it is
  retryCountRef,
  retryTimeoutRef,     \* 0 = null, else the attempt that created the timer
  readerRef,           \* 0 = null, else the attempt whose body reader it is
  bufferRef,
  pc,                  \* position of each attempt
  cpaused,             \* isPaused captured by the attempt's processChunk
  conn,                \* state of each attempt's connection
  readOn,              \* the reader whose read() the attempt awaits
  readq,               \* pending read requests of each reader, FIFO
  timers,              \* pending setTimeout callbacks, by creating attempt
  delay,               \* the delay each pending timer was set with, else 0
  microq,              \* microtask queue: attempts whose await has settled
  nchunks,             \* chunks delivered so far
  session,             \* history: number of the current session
  sess,                \* history: the session each attempt belongs to
  wire,                \* history: text of the counted chunks since lines and tail were reset
  consec,              \* history: failures since the last response or user call
  ncalls,              \* history: calls of pause, resume, clear so far
  nretry,              \* history: calls of retry so far
  nexport,             \* history: calls of exportLogs so far
  downloads,           \* the documents handed to the browser for download
  options,             \* sinceTime and sinceSeconds of the current render
  copts,               \* the options captured by each attempt's closure
  url                  \* the query parameters of the URL fetched last

vars == << selected, mounted, lines, isStreaming, isRetrying, error, isPaused,
           abortControllerRef, retryCountRef, retryTimeoutRef, readerRef,
           bufferRef, pc, cpaused, conn, readOn, readq, timers,
           microq, nchunks, session, sess, wire, consec, ncalls, nretry,
           delay, nexport, downloads, options, copts, url >>

\* --------------------------------------------------------- processChunk
RECURSIVE Split(_)
\* String.prototype.split('\n'): the segments between line feeds, at least one
Split(s) ==
  IF \A k \in 1..Len(s) : s[k] /= NL
  THEN << s >>
  ELSE LET k == CHOOSE k \in 1..Len(s) :
                  s[k] = NL /\ \A m \in 1..(k-1) : s[m] /= NL
       IN  << SubSeq(s, 1, k-1) >> \o Split(SubSeq(s, k+1, Len(s)))

\* (mutant) only the empty string is dropped
OnlyEmptyIsBlank(line) == line = << >>

\* line.trim() is the empty string
IsBlank(line) == \A k \in 1..Len(line) : line[k] \in Whitespace

\* lines.filter(line => line.trim())
FilterNonBlank(segs) == SelectSeq(segs, LAMBDA l : ~IsBlank(l))

\* (mutant) the last segment is emitted as well
FrontWithLast(segs) == segs

\* array without its last element (what is left after lines.pop())
Front(segs) == SubSeq(segs, 1, Len(segs) - 1)

\* the early return of processChunk
Suppressed(paused) == paused

\* (mutant) the tail is not kept across calls
ChunkTailDropped(paused, buf, chunk) == IF Suppressed(paused) THEN buf ELSE << >>

\* the value of bufferRef.current after processChunk(chunk)
ChunkTail(paused, buf, chunk) ==
  IF Suppressed(paused) THEN buf
  ELSE LET segs == Split(buf \o chunk) IN segs[Len(segs)]

\* the lines appended by processChunk(chunk)
ChunkLines(paused, buf, chunk) ==
  IF Suppressed(paused) THEN << >>
  ELSE FilterNonBlank(Front(Split(buf \o chunk)))

\* (mutant) the new lines replace the old ones
KeepsOnlyNew(prev, new) == new

\* setLines(prevLines => [...prevLines, ...new])
AppendLines(prev, new) == prev \o new

\* --------------------------------------------------------- buildStreamUrl
\* values of LogStreamOptions.sinceTime (a string) and .sinceSeconds (a
\* number), written as text; "undefined" is a missing field
SinceTimes == {"undefined", "", "2024-01-01T00:00:00Z"}
SinceSecondsValues == {"undefined", "0", "60"}
OptionValues == [sinceTime : SinceTimes, sinceSeconds : SinceSecondsValues]
NoOptions == [sinceTime |-> "undefined", sinceSeconds |-> "undefined"]

\* if (sinceTime): undefined and the empty string are falsy
HasSinceTime(opt) == opt.sinceTime \notin {"undefined", ""}

\* if (sinceSeconds): undefined and 0 are falsy
HasSinceSeconds(opt) == opt.sinceSeconds \notin {"undefined", "0"}

\* the URLSearchParams of buildStreamUrl, as a set of key/value pairs
BuildStreamUrl(opt) ==
  { << "follow", "true" >>, << "timestamps", "true" >> }
    \cup (IF HasSinceTime(opt) THEN { << "sinceTime", opt.sinceTime >> } ELSE {})
    \cup (IF HasSinceSeconds(opt)
          THEN { << "sinceSeconds", opt.sinceSeconds >> } ELSE {})

\* ------------------------------------------------------------------ Init
Init ==
  /\ selected = FALSE
  /\ mounted = TRUE
  /\ lines = << >>
  /\ isStreaming = FALSE
  /\ isRetrying = FALSE
  /\ error = FALSE
  /\ isPaused = FALSE
  /\ abortControllerRef = 0
  /\ retryCountRef = 0
  /\ retryTimeoutRef = 0
  /\ readerRef = 0
  /\ bufferRef = << >>
  /\ pc = [i \in Att |-> "idle"]
  /\ cpaused = [i \in Att |-> FALSE]
  /\ conn = [i \in Att |-> "none"]
  /\ readOn = [i \in Att |-> 0]
  /\ readq = [i \in Att |-> << >>]
  /\ timers = {}
  /\ microq = << >>
  /\ nchunks = 0
  /\ session = 0
  /\ sess = [i \in Att |-> 0]
  /\ wire = << >>
  /\ consec = 0
  /\ ncalls = 0
  /\ nretry = 0
  /\ delay = [i \in Att |-> 0]
  /\ nexport = 0
  /\ downloads = << >>
  /\ options = NoOptions
  /\ copts = [i \in Att |-> NoOptions]
  /\ url = {}

\* a connection is alive while its fetch is in flight or its body is open
Alive(i) == conn[i] \in {"fetching", "open"}

\* nothing of attempt i is left: its place can be taken
Free(i) ==
  /\ pc[i] = "idle"
  /\ ~Alive(i)
  /\ i \notin timers
  /\ i \notin {abortControllerRef, retryTimeoutRef, readerRef}
  /\ \A j \in Att : readOn[j] /= i

HasFree == \E i \in Att : Free(i)

\* the place of the next attempt
NewAtt == CHOOSE i \in Att : Free(i) /\ \A k \in 1..(i-1) : ~Free(k)

\* Nothing of attempt t is left but its timer, which is firing: the attempt
\* its callback starts can take its place. (The start overwrites
\* abortControllerRef; retryTimeoutRef, left on the fired timer, is
\* overwritten when the next timer is scheduled.)
FiredFree(t) ==
  /\ pc[t] = "idle"
  /\ ~Alive(t)
  /\ t /= readerRef
  /\ \A j \in Att : readOn[j] /= t

\* the place of the attempt the callback of timer t starts
NewAttAfter(t) == IF FiredFree(t) THEN t ELSE NewAtt

\* a state setter called after unmount is ignored by React
Set(new, old) == IF mounted THEN new ELSE old

\* the microtasks that resume the attempts of q with result o
Wake(q, o) == [k \in 1..Len(q) |-> [a |-> q[k], o |-> o]]

\* ------------------------------------------------- AbortController.abort()
\* abort() of controller a (0 = no controller): the connection it ends
AbortConn(c, a) ==
  IF a /= 0 /\ c[a] \in {"fetching", "open"} THEN [c EXCEPT ![a] = "none"] ELSE c

\* the awaits abort() rejects with an AbortError: the fetch, or every pending
\* read of the body
AbortWake(a) ==
  IF a = 0 THEN << >>
  ELSE IF conn[a] = "fetching" THEN Wake(<< a >>, "abort")
  ELSE IF conn[a] = "open" THEN Wake(readq[a], "abort")
  ELSE << >>

AbortReadq(a) == IF a = 0 THEN readq ELSE [readq EXCEPT ![a] = << >>]

\* ------------------------------------------------------------- stopStream
\* the timer stopStream clears (clearTimeout of a fired timer does nothing)
StopClearedTimers == {retryTimeoutRef}

\* (mutant) stopStream leaves its refs set
RefKept(ref) == ref

\* a ref stopStream has gone through: .current = null
RefAfterStop(ref) == 0

\* (mutant) stopStream aborts the attempt of the retry timer
StopAbortsTimerAttempt == retryTimeoutRef

\* the controller stopStream aborts
StopAbortTarget == abortControllerRef

\* --------------------------------------------------- startStream, sync part
\* the guard of startStream: namespace and pod of the closure are non-empty
CanStart(sel) == sel

\* (mutant) one retry too many
ShouldRetryOffByOne(n) == n <= MAX_RETRIES

\* shouldRetry: the test of the retry branch
ShouldRetry(n) == n < MAX_RETRIES

\* the delay of the timer scheduled when retryCount has become n
RECURSIVE Pow2(_)
Pow2(n) == IF n <= 0 THEN 1 ELSE 2 * Pow2(n - 1)
RetryDelay(n) == BASE_RETRY_DELAY * Pow2(n - 1)

\* (mutant) the count is not reset on a response
CountKept(n) == n

\* retryCountRef.current after a response with a body has been obtained
CountAfterResponse(n) == 0

\* (mutant) a response leaves isStreaming as it is
StreamingUnchanged(b) == b

\* isStreaming after a response with a body has been obtained:
\* setIsStreaming(true)
StreamingAfterResponse(b) == TRUE

\* (mutant) a failure leaves error as it is
ErrorKept(e) == e

\* error after the catch block has run for an error that is not an
\* AbortError: setError(err)
ErrorAfterFailure(e) == TRUE

\* (mutant) an AbortError is handled like any other error
NeverAbortError(o) == FALSE

\* err.name === 'AbortError'
IsAbortError(o) == o = "abort"

\* ------------------------------------------ startStream: catch and finally
\* Attempt i leaves its try block with outcome "fail" (an Error that is not
\* an AbortError), "abort" (AbortError) or "done" (read returned done), the
\* connections, read queues and microtask queue being c1, rq1, mq1.
EndAttempt(i, outcome, c1, rq1, mq1) ==
  /\ IF outcome = "done"
     THEN UNCHANGED << error, consec, retryCountRef, isRetrying, isStreaming,
                       retryTimeoutRef, timers, delay >>
     ELSE IF IsAbortError(outcome)
     THEN /\ isStreaming' = Set(FALSE, isStreaming)
          /\ UNCHANGED << error, consec, retryCountRef, isRetrying,
                          retryTimeoutRef, timers, delay >>
     ELSE /\ error' = Set(ErrorAfterFailure(error), error)
          /\ consec' = consec + 1
          /\ IF ShouldRetry(retryCountRef)
             THEN /\ retryCountRef' = retryCountRef + 1
                  /\ isRetrying' = Set(TRUE, isRetrying)
                  /\ retryTimeoutRef' = i
                  /\ timers' = timers \cup {i}
                  /\ delay' = [delay EXCEPT ![i] = RetryDelay(retryCountRef + 1)]
                  /\ UNCHANGED isStreaming
             ELSE /\ isStreaming' = Set(FALSE, isStreaming)
                  /\ isRetrying' = Set(FALSE, isRetrying)
                  /\ UNCHANGED << retryCountRef, retryTimeoutRef, timers, delay >>
  /\ IF readerRef = 0
     THEN /\ pc' = [pc EXCEPT ![i] = "idle"]
          /\ conn' = c1
          /\ readq' = rq1
          /\ microq' = mq1
     ELSE \* await readerRef.current.cancel(): an open stream is closed and
          \* its pending reads resolve with done
          LET r == readerRef IN
          /\ pc' = [pc EXCEPT ![i] = "cancel"]
          /\ conn' = [c1 EXCEPT ![r] = "none"]
          /\ readq' = [rq1 EXCEPT ![r] = << >>]
          /\ microq' = mq1 \o Wake(rq1[r], "done") \o Wake(<< i >>, "cancel")

\* ------------------------------------------------------------ user calls
\* (mutant) the effect also depends on what changes with isPaused
EffectDepsWithPause(sel, paused) == << sel, paused >>

\* the dependency list of the streaming effect: namespace, pod, sinceTime,
\* sinceSeconds; nothing in it changes with isPaused
EffectDeps(sel, paused) == << sel >>

\* A run of the streaming effect: the cleanup of the previous run
\* (stopStream), then startStream() when sel; paused is the isPaused of the
\* render, opt its options, sn the session of the attempt.
EffectRun(sel, paused, sn, opt) ==
  LET a == StopAbortTarget
      j == NewAtt
  IN
  /\ timers' = timers \ StopClearedTimers
  /\ delay' = [i \in Att |-> IF i \in StopClearedTimers THEN 0 ELSE delay[i]]
  /\ retryTimeoutRef' = RefAfterStop(retryTimeoutRef)
  /\ isStreaming' = FALSE
  /\ isRetrying' = FALSE
  /\ microq' = AbortWake(a)
  /\ readq' = AbortReadq(a)
  /\ IF CanStart(sel)
     THEN /\ error' = FALSE
          /\ abortControllerRef' = j
          /\ conn' = [AbortConn(conn, a) EXCEPT ![j] = "fetching"]
          /\ pc' = [pc EXCEPT ![j] = "fetch"]
          /\ cpaused' = [cpaused EXCEPT ![j] = paused]
          /\ sess' = [sess EXCEPT ![j] = sn]
          /\ copts' = [copts EXCEPT ![j] = opt]
          /\ url' = BuildStreamUrl(opt)
     ELSE /\ abortControllerRef' = RefAfterStop(abortControllerRef)
          /\ conn' = AbortConn(conn, a)
          /\ UNCHANGED << error, pc, cpaused, sess, copts, url >>

\* The tuple [namespace, pod, sinceTime, sinceSeconds] changes: the effect
\* runs.
TupleChangeWith(sel, opt) ==
  /\ UNCHANGED << nexport, downloads >>
  /\ options' = opt
  /\ mounted /\ microq = << >> /\ session < MaxSessions
  /\ UNCHANGED << ncalls, nretry >>
  /\ CanStart(sel) => HasFree
  /\ selected' = sel
  /\ session' = session + 1
  /\ consec' = 0
  /\ EffectRun(sel, isPaused, session + 1, opt)
  /\ UNCHANGED << mounted, lines, isPaused, retryCountRef, readerRef,
                  bufferRef, readOn, nchunks, wire >>

\* namespace or pod changes, the options stay
TupleChange(sel) == TupleChangeWith(sel, options)

\* Unmount: the cleanups of both effects run stopStream (the second call
\* finds both refs null).
Unmount ==
  /\ UNCHANGED << nexport, downloads, options, copts, url >>
  /\ mounted /\ microq = << >>
  /\ UNCHANGED << ncalls, nretry >>
  /\ LET a == StopAbortTarget IN
     /\ mounted' = FALSE
     /\ timers' = timers \ StopClearedTimers
     /\ delay' = [i \in Att |-> IF i \in StopClearedTimers THEN 0 ELSE delay[i]]
     /\ retryTimeoutRef' = RefAfterStop(retryTimeoutRef)
     /\ abortControllerRef' = RefAfterStop(abortControllerRef)
     /\ isStreaming' = FALSE
     /\ isRetrying' = FALSE
     /\ microq' = AbortWake(a)
     /\ readq' = AbortReadq(a)
     /\ conn' = AbortConn(conn, a)
     /\ consec' = 0
     /\ UNCHANGED << selected, lines, error, isPaused, retryCountRef, readerRef,
                     bufferRef, pc, cpaused, readOn, nchunks,
                     session, sess, wire >>

\* retry(): resets, then startStream() of the latest render
Retry ==
  /\ UNCHANGED << delay, nexport, downloads, options >>
  /\ mounted /\ microq = << >> /\ nretry < MaxRetryCalls
  /\ nretry' = nretry + 1
  /\ UNCHANGED ncalls
  /\ CanStart(selected) => HasFree
  /\ retryCountRef' = 0
  /\ error' = FALSE
  /\ lines' = << >>
  /\ bufferRef' = << >>
  /\ wire' = << >>
  /\ consec' = 0
  /\ IF CanStart(selected)
     THEN LET j == NewAtt IN
          /\ isRetrying' = FALSE
          /\ abortControllerRef' = j
          /\ conn' = [conn EXCEPT ![j] = "fetching"]
          /\ pc' = [pc EXCEPT ![j] = "fetch"]
          /\ cpaused' = [cpaused EXCEPT ![j] = isPaused]
          /\ sess' = [sess EXCEPT ![j] = session]
          /\ copts' = [copts EXCEPT ![j] = options]
          /\ url' = BuildStreamUrl(options)
     ELSE UNCHANGED << isRetrying, abortControllerRef, conn, pc, cpaused, sess,
                       copts, url >>
  /\ UNCHANGED << selected, mounted, isStreaming, isPaused, retryTimeoutRef,
                  readerRef, readOn, readq, timers, microq, nchunks, session >>

\* pause(): setIsPaused(true); the render that follows runs the effect when
\* its dependencies have changed
Pause ==
  /\ UNCHANGED << nexport, downloads, options >>
  /\ mounted /\ microq = << >> /\ ncalls < MaxCalls
  /\ UNCHANGED nretry
  /\ ~isPaused
  /\ ncalls' = ncalls + 1
  /\ isPaused' = TRUE
  /\ consec' = 0
  /\ IF EffectDeps(selected, TRUE) /= EffectDeps(selected, isPaused)
     THEN /\ CanStart(selected) => HasFree
          /\ EffectRun(selected, TRUE, session, options)
     ELSE UNCHANGED << timers, delay, retryTimeoutRef, isStreaming, isRetrying,
                       microq, readq, error, abortControllerRef, conn, pc,
                       cpaused, sess, copts, url >>
  /\ UNCHANGED << selected, mounted, lines, retryCountRef, readerRef,
                  bufferRef, readOn, nchunks, session, wire >>

\* resume(): setIsPaused(false)
Resume ==
  /\ UNCHANGED << nexport, downloads, options >>
  /\ mounted /\ microq = << >> /\ ncalls < MaxCalls
  /\ UNCHANGED nretry
  /\ isPaused
  /\ ncalls' = ncalls + 1
  /\ isPaused' = FALSE
  /\ consec' = 0
  /\ IF EffectDeps(selected, FALSE) /= EffectDeps(selected, isPaused)
     THEN /\ CanStart(selected) => HasFree
          /\ EffectRun(selected, FALSE, session, options)
     ELSE UNCHANGED << timers, delay, retryTimeoutRef, isStreaming, isRetrying,
                       microq, readq, error, abortControllerRef, conn, pc,
                       cpaused, sess, copts, url >>
  /\ UNCHANGED << selected, mounted, lines, retryCountRef, readerRef,
                  bufferRef, readOn, nchunks, session, wire >>

\* (mutant) clear() leaves the tail alone
TailKept(buf) == buf

\* bufferRef.current after clear()
TailAfterClear(buf) == << >>

Clear ==
  /\ UNCHANGED << delay, nexport, downloads, options, copts, url >>
  /\ mounted /\ microq = << >> /\ ncalls < MaxCalls
  /\ UNCHANGED nretry
  /\ ncalls' = ncalls + 1
  /\ lines' = << >>
  /\ bufferRef' = TailAfterClear(bufferRef)
  /\ wire' = << >>
  /\ consec' = 0
  /\ UNCHANGED << selected, mounted, isStreaming, isRetrying, error, isPaused,
                  abortControllerRef, retryCountRef, retryTimeoutRef, readerRef,
                  pc, cpaused, conn, readOn, readq, timers, microq,
                  nchunks, session, sess >>

\* -------------------------------------------------------------- exportLogs
\* \s of the timestamp pattern, in a line (a line holds no line feed)
RegexSpace == {" ", CR}

\* what . of the pattern does not match in a line
LineTerminator == {CR}

\* the index of the first character behind the timestamp and the longest run
\* of \s that follows it
MessageStart(line) ==
  CHOOSE k \in 2..(Len(line) + 1) :
    /\ \A m \in 2..(k-1) : line[m] \in RegexSpace
    /\ k <= Len(line) => line[k] \notin RegexSpace

\* line.match(timestampRegex): ^(timestamp)\s+(.*)$
MatchesTimestamp(line) ==
  /\ Len(line) >= 2
  /\ line[1] = TS
  /\ line[2] \in RegexSpace
  /\ \A m \in MessageStart(line)..Len(line) : line[m] \notin LineTerminator

\* parsedLines[k].message
Message(line) ==
  IF MatchesTimestamp(line)
  THEN SubSeq(line, MessageStart(line), Len(line))
  ELSE line

\* the log lines of the document
ExportBody(ls, includeTimestamps) ==
  [k \in 1..Len(ls) |-> IF includeTimestamps THEN ls[k] ELSE Message(ls[k])]

\* the metadata header of the document: its two entries that depend on the
\* call, or none
ExportHeader(ls, includeTimestamps, includeMetadata) ==
  IF includeMetadata
  THEN << [totalLines |-> Len(ls), includeTimestamps |-> includeTimestamps] >>
  ELSE << >>

\* the document handed to the browser, with the options of the call
ExportDocument(ls, includeTimestamps, includeMetadata) ==
  [ options |-> [includeTimestamps |-> includeTimestamps,
                 includeMetadata |-> includeMetadata],
    header |-> ExportHeader(ls, includeTimestamps, includeMetadata),
    body |-> ExportBody(ls, includeTimestamps) ]

\* (mutant) an empty export is not refused
AlwaysExports(ls) == FALSE

\* lines.length === 0: warn and return
NothingToExport(ls) == Len(ls) = 0

\* (mutant) the lines are stripped in place
LinesStripped(ls) == ExportBody(ls, FALSE)

\* lines after exportLogs: lines.map builds a new array
LinesAfterExport(ls) == ls

\* exportLogs(filename, {includeTimestamps, includeMetadata}) of the latest
\* render
ExportLogs(includeTimestamps, includeMetadata) ==
  /\ mounted /\ microq = << >> /\ nexport < MaxExports
  /\ nexport' = nexport + 1
  /\ IF NothingToExport(lines)
     THEN UNCHANGED << downloads, lines >>
     ELSE /\ downloads' = Append(downloads,
                ExportDocument(lines, includeTimestamps, includeMetadata))
          /\ lines' = LinesAfterExport(lines)
  /\ UNCHANGED << selected, mounted, isStreaming, isRetrying, error, isPaused,
                  abortControllerRef, retryCountRef, retryTimeoutRef, readerRef,
                  bufferRef, pc, cpaused, conn, readOn, readq, timers, microq,
                  nchunks, session, sess, wire, consec, ncalls, nretry, delay,
                  options, copts, url >>

\* ------------------------------------------------------------ retry timer
\* The callback of the timer attempt t created: setIsRetrying(false) and
\* startStream() of the closure t ran in.
TimerFire(t) ==
  /\ UNCHANGED << nexport, downloads, options >>
  /\ UNCHANGED << ncalls, nretry >>
  /\ microq = << >> /\ t \in timers /\ (FiredFree(t) \/ HasFree)
  /\ LET j == NewAttAfter(t) IN
     /\ timers' = timers \ {t}
     /\ delay' = [delay EXCEPT ![t] = 0]
     /\ isRetrying' = Set(FALSE, isRetrying)
     /\ error' = Set(FALSE, error)
     /\ abortControllerRef' = j
     /\ conn' = [conn EXCEPT ![j] = "fetching"]
     /\ pc' = [pc EXCEPT ![j] = "fetch"]
     /\ cpaused' = [cpaused EXCEPT ![j] = cpaused[t]]
     /\ sess' = [sess EXCEPT ![j] = sess[t]]
     /\ copts' = [copts EXCEPT ![j] = copts[t]]
     /\ url' = BuildStreamUrl(copts[t])
  /\ UNCHANGED << selected, mounted, lines, isStreaming, isPaused, retryCountRef,
                  retryTimeoutRef, readerRef, bufferRef, readOn, readq, microq,
                  nchunks, session, wire, consec >>

\* ---------------------------------------------------------- network events
\* fetch resolves with an ok response that has a body: lines 123-134
FetchOk(i) ==
  /\ UNCHANGED << delay, nexport, downloads, options, copts, url >>
  /\ UNCHANGED << ncalls, nretry >>
  /\ microq = << >> /\ pc[i] = "fetch" /\ conn[i] = "fetching"
  /\ conn' = [conn EXCEPT ![i] = "open"]
  /\ readerRef' = i
  /\ retryCountRef' = CountAfterResponse(retryCountRef)
  /\ isStreaming' = Set(StreamingAfterResponse(isStreaming), isStreaming)
  /\ pc' = [pc EXCEPT ![i] = "read"]
  /\ readOn' = [readOn EXCEPT ![i] = i]
  /\ readq' = [readq EXCEPT ![i] = Append(@, i)]
  /\ consec' = 0
  /\ UNCHANGED << selected, mounted, lines, isRetrying, error, isPaused,
                  abortControllerRef, retryTimeoutRef, bufferRef, cpaused, timers, microq, nchunks, session, sess, wire >>

\* fetch rejects (network), or the response is not ok, or has no body
FetchFail(i) ==
  /\ UNCHANGED << nexport, downloads, options, copts, url >>
  /\ UNCHANGED << ncalls, nretry >>
  /\ microq = << >> /\ pc[i] = "fetch" /\ conn[i] = "fetching"
  /\ EndAttempt(i, "fail", [conn EXCEPT ![i] = "none"], readq, << >>)
  /\ UNCHANGED << selected, mounted, lines, isPaused, abortControllerRef,
                  readerRef, bufferRef, cpaused, readOn, nchunks,
                  session, sess, wire >>

\* A chunk arrives on the body of connection r: the oldest pending read
\* resolves; its attempt runs processChunk and calls
\* readerRef.current.read() again.
Chunk(r, ch) ==
  /\ UNCHANGED << nexport, downloads, options, copts, url >>
  /\ UNCHANGED << ncalls, nretry >>
  /\ microq = << >>
  /\ conn[r] = "open" /\ readq[r] /= << >>
  /\ LET i == Head(readq[r])
         rq1 == [readq EXCEPT ![r] = Tail(@)]
         rr == readerRef
     IN
     /\ lines' = Set(AppendLines(lines, ChunkLines(cpaused[i], bufferRef, ch)),
                     lines)
     /\ bufferRef' = ChunkTail(cpaused[i], bufferRef, ch)
     /\ IF rr = 0
        THEN \* readerRef.current is null: read() throws a TypeError
             /\ EndAttempt(i, "fail", conn, rq1, << >>)
             /\ readOn' = [readOn EXCEPT ![i] = 0]
        ELSE \* at a task readerRef.current is the reader of an open body
             \* (invariant ReaderRefOpen): the read is queued on it
             /\ conn[rr] = "open"
             /\ readOn' = [readOn EXCEPT ![i] = rr]
             /\ readq' = [rq1 EXCEPT ![rr] = Append(@, i)]
             /\ microq' = << >>
             /\ UNCHANGED << isStreaming, isRetrying, error, retryCountRef,
                             retryTimeoutRef, pc, conn, timers, consec,
                             delay >>
  /\ UNCHANGED << selected, mounted, isPaused, abortControllerRef, readerRef,
                  cpaused, session, sess >>

\* the server ends the body of connection r: pending reads resolve with done
ServerEnd(r) ==
  /\ UNCHANGED << delay, nexport, downloads, options, copts, url >>
  /\ UNCHANGED << ncalls, nretry >>
  /\ microq = << >> /\ conn[r] = "open"
  /\ conn' = [conn EXCEPT ![r] = "none"]
  /\ microq' = Wake(readq[r], "done")
  /\ readq' = [readq EXCEPT ![r] = << >>]
  /\ UNCHANGED << selected, mounted, lines, isStreaming, isRetrying, error,
                  isPaused, abortControllerRef, retryCountRef, retryTimeoutRef,
                  readerRef, bufferRef, pc, cpaused, readOn, timers,
                  nchunks, session, sess, wire, consec >>

\* the body of connection r fails: pending reads reject with the error
NetError(r) ==
  /\ UNCHANGED << delay, nexport, downloads, options, copts, url >>
  /\ UNCHANGED << ncalls, nretry >>
  /\ microq = << >> /\ conn[r] = "open"
  /\ conn' = [conn EXCEPT ![r] = "none"]
  /\ microq' = Wake(readq[r], "fail")
  /\ readq' = [readq EXCEPT ![r] = << >>]
  /\ UNCHANGED << selected, mounted, lines, isStreaming, isRetrying, error,
                  isPaused, abortControllerRef, retryCountRef, retryTimeoutRef,
                  readerRef, bufferRef, pc, cpaused, readOn, timers,
                  nchunks, session, sess, wire, consec >>

\* -------------------------------------------------------------- microtasks
\* the continuation of a settled fetch or read: catch (or break), finally
AwaitSettled ==
  /\ UNCHANGED << nexport, downloads, options, copts, url >>
  /\ UNCHANGED << ncalls, nretry >>
  /\ microq /= << >>
  /\ LET i == Head(microq).a
         o == Head(microq).o
     IN
     /\ o /= "cancel"
     /\ EndAttempt(i, o, conn, readq, Tail(microq))
     /\ readOn' = [readOn EXCEPT ![i] = 0]
  /\ UNCHANGED << selected, mounted, lines, isPaused, abortControllerRef,
                  readerRef, bufferRef, cpaused, nchunks, session,
                  sess, wire >>

\* the continuation of await reader.cancel(): readerRef.current = null
CancelSettled ==
  /\ UNCHANGED << delay, nexport, downloads, options, copts, url >>
  /\ UNCHANGED << ncalls, nretry >>
  /\ microq /= << >>
  /\ LET i == Head(microq).a IN
     /\ Head(microq).o = "cancel"
     /\ pc' = [pc EXCEPT ![i] = "idle"]
     /\ readerRef' = 0
     /\ microq' = Tail(microq)
  /\ UNCHANGED << selected, mounted, lines, isStreaming, isRetrying, error,
                  isPaused, abortControllerRef, retryCountRef, retryTimeoutRef,
                  bufferRef, cpaused, conn, readOn, readq, timers,
                  nchunks, session, sess, wire, consec >>

\* A chunk of text, counted against the bound `limit`; wire records it.
Deliver(r, ch, limit) ==
  /\ nchunks < limit
  /\ Chunk(r, ch)
  /\ nchunks' = nchunks + 1
  /\ wire' = wire \o ch

\* A chunk that holds one line feed. With an empty tail processChunk appends
\* nothing and leaves the tail empty, so these chunks need no bound.
KeepAlive(r) ==
  /\ bufferRef = << >>
  /\ Chunk(r, << NL >>)
  /\ UNCHANGED << nchunks, wire >>

\* ------------------------------------------------------------------- Next
\* timers, network events other than chunks, microtasks
Background ==
  \/ \E t \in Att : TimerFire(t)
  \/ \E i \in Att : FetchOk(i)
  \/ \E i \in Att : FetchFail(i)
  \/ \E r \in Att : ServerEnd(r)
  \/ \E r \in Att : NetError(r)
  \/ AwaitSettled
  \/ CancelSettled

\* the whole hook
Next ==
  \/ \E sel \in BOOLEAN : TupleChange(sel)
  \/ Unmount
  \/ Retry
  \/ Pause
  \/ Resume
  \/ Clear
  \/ \E r \in Att, ch \in LifeChunks : Deliver(r, ch, MaxChunks)
  \/ Background

Spec == Init /\ [][Next]_vars

\* The connection lifecycle: every call and event that touches a connection,
\* a timer, retryCount, isStreaming, isRetrying or error. The chunks carry
\* no line.
NextLife ==
  \/ \E sel \in BOOLEAN : TupleChange(sel)
  \/ Unmount
  \/ Retry
  \/ \E r \in Att : KeepAlive(r)
  \/ Background

SpecLife == Init /\ [][NextLife]_vars

\* The connection lifecycle without chunks: the calls that start and stop
\* attempts and the events that open, fail and end connections.
NextConn ==
  \/ \E sel \in BOOLEAN : TupleChange(sel)
  \/ Unmount
  \/ Retry
  \/ Background

SpecConn == Init /\ [][NextConn]_vars

\* Line reassembly: one unpaused connection is streaming and delivers every
\* sequence of at most MaxFeed chunks; clear() may come in between.
InitFeed ==
  /\ selected = TRUE
  /\ mounted = TRUE
  /\ lines = << >>
  /\ isStreaming = TRUE
  /\ isRetrying = FALSE
  /\ error = FALSE
  /\ isPaused = FALSE
  /\ abortControllerRef = 1
  /\ retryCountRef = 0
  /\ retryTimeoutRef = 0
  /\ readerRef = 1
  /\ bufferRef = << >>
  /\ pc = [i \in Att |-> IF i = 1 THEN "read" ELSE "idle"]
  /\ cpaused = [i \in Att |-> FALSE]
  /\ conn = [i \in Att |-> IF i = 1 THEN "open" ELSE "none"]
  /\ readOn = [i \in Att |-> IF i = 1 THEN 1 ELSE 0]
  /\ readq = [i \in Att |-> IF i = 1 THEN << 1 >> ELSE << >>]
  /\ timers = {}
  /\ microq = << >>
  /\ nchunks = 0
  /\ session = 1
  /\ sess = [i \in Att |-> IF i = 1 THEN 1 ELSE 0]
  /\ wire = << >>
  /\ consec = 0
  /\ ncalls = 0
  /\ nretry = 0
  /\ delay = [i \in Att |-> 0]
  /\ nexport = 0
  /\ downloads = << >>
  /\ options = NoOptions
  /\ copts = [i \in Att |-> NoOptions]
  /\ url = BuildStreamUrl(NoOptions)

NextFeed ==
  \/ \E ch \in Chunks : Deliver(1, ch, MaxFeed)
  \/ Clear

SpecFeed == InitFeed /\ [][NextFeed]_vars

\* Export: one unpaused connection is streaming and delivers at most
\* MaxExportLines lines, then may fail and be retried; exportLogs is called
\* in between with every option set.
NextExport ==
  \/ \E ch \in ExportChunks : Deliver(1, ch, MaxExportLines)
  \/ \E ts \in BOOLEAN, meta \in BOOLEAN : ExportLogs(ts, meta)
  \/ Background

SpecExport == InitFeed /\ [][NextExport]_vars

\* The streaming URL: tuple changes with every options value, retry() and
\* the background events.
NextUrl ==
  \/ \E sel \in BOOLEAN, opt \in OptionValues : TupleChangeWith(sel, opt)
  \/ Retry
  \/ Background

SpecUrl == Init /\ [][NextUrl]_vars

\* The hook with every call but retry(): tuple changes, unmount, pause,
\* resume, clear, chunks of text and the background events.
NextUse ==
  \/ \E sel \in BOOLEAN : TupleChange(sel)
  \/ Unmount
  \/ Pause
  \/ Resume
  \/ Clear
  \/ \E r \in Att, ch \in LifeChunks : Deliver(r, ch, MaxChunks)
  \/ Background

SpecUse == Init /\ [][NextUse]_vars

\* A namespace and pod are selected once, with any options, and the user
\* does nothing more; no connection ever delivers a chunk or is ended by the
\* server: every attempt fails, at its fetch or at a read. Timers fire,
\* requests settle and microtasks run (weak fairness).
NextQuiet ==
  \/ session = 0 /\ \E opt \in OptionValues : TupleChangeWith(TRUE, opt)
  \/ \E t \in Att : TimerFire(t)
  \/ \E i \in Att : FetchOk(i)
  \/ \E i \in Att : FetchFail(i)
  \/ \E r \in Att : NetError(r)
  \/ AwaitSettled
  \/ CancelSettled

SpecQuiet == Init /\ [][NextQuiet]_vars /\ WF_vars(NextQuiet)

\* ------------------------------------------------------------ invariants
TypeOK ==
  /\ \A i \in Att : delay[i] \in {0, 1000, 2000, 4000}
  /\ \A i \in Att : delay[i] /= 0 <=> i \in timers
  /\ retryCountRef \in 0..MAX_RETRIES
  /\ \A i \in Att : pc[i] \in {"idle", "fetch", "read", "cancel"}
  /\ \A i \in Att : conn[i] \in {"none", "fetching", "open"}
  /\ \A i \in Att : readOn[i] \in 0..MaxAttempts

\* at a task readerRef.current is null or the reader of an open body
ReaderRefOpen == (microq = << >> /\ readerRef /= 0) => conn[readerRef] = "open"

\* ================================================================= claims
AliveSet == {i \in Att : Alive(i)}

\* the session of attempt i has been stopped
Stopped(i) == ~mounted \/ sess[i] /= session

\* a step in which stopStream runs: the tuple changes or the consumer unmounts
StopStep == session' /= session \/ (mounted /\ ~mounted')

\* a step in which the catch block handles an error that is not an AbortError
FailStep == consec' = consec + 1

\* a step in which attempt i obtains its response
ResponseStep(i) == pc[i] = "fetch" /\ pc'[i] = "read"

\* a step in which attempt i starts (fetch is called)
StartStep(i) == conn[i] = "none" /\ conn'[i] = "fetching"

\* a step in which a counted chunk arrives
ChunkStep == nchunks' = nchunks + 1

\* the chunk that arrives in a ChunkStep
Arrived == SubSeq(wire', Len(wire) + 1, Len(wire'))

\* C1: in every reachable state at most one connection of the hook is alive
\* (fetch in flight or body open).
C1_AtMostOneConnection == Cardinality(AliveSet) <= 1

\* C2: after stopStream has run no attempt of the stopped session schedules
\* a retry timer and none opens a connection.
C2_StoppedNeverResurrects ==
  [][ \A i \in Att :
        /\ (i \in timers' /\ i \notin timers) => ~Stopped(i)
        /\ StartStep(i) => (mounted' /\ sess'[i] = session') ]_vars

\* C3: immediately after stopStream no retry timer is pending and no
\* connection of the stopped session is alive.
C3_StopLeavesNothing ==
  [][ StopStep =>
        /\ timers' = {}
        /\ \A i \in Att : conn'[i] \in {"fetching", "open"}
                            => (mounted' /\ sess'[i] = session') ]_vars

\* the presentation of Failed
Failed == ~isStreaming /\ ~isRetrying /\ error

\* C4 (as stated): after 3 consecutive non-cancellation failures the session
\* is Failed and no further attempt is scheduled or made.
C4_FailedAfterThree ==
  (mounted /\ consec = 3 /\ microq = << >>)
    => (Failed /\ timers = {} /\ AliveSet = {})

\* C4 (amended): a failure that finds retryCount < 3 schedules one retry and
\* adds 1 to retryCount; a failure that finds retryCount = 3 makes the session
\* Failed, schedules no timer and starts no attempt; the 4th consecutive
\* failure always finds retryCount = 3.
C4_FailedAfterFour ==
  [][ /\ retryCountRef' >= (IF consec' < MAX_RETRIES THEN consec' ELSE MAX_RETRIES)
      /\ FailStep =>
           IF retryCountRef < MAX_RETRIES
           THEN /\ retryCountRef' = retryCountRef + 1
                /\ Cardinality(timers' \ timers) = 1
                /\ mounted => (isRetrying' /\ error')
           ELSE /\ retryCountRef' = retryCountRef
                /\ timers' = timers
                /\ \A i \in Att : ~StartStep(i)
                /\ mounted => (~isStreaming' /\ ~isRetrying' /\ error') ]_vars

\* the 4th consecutive failure has made the session Failed
C4_Witness ==
  /\ mounted /\ consec = 4 /\ Failed /\ timers = {} /\ AliveSet = {}

AbortErrorNext == microq /= << >> /\ Head(microq).o = "abort"

\* C6: stopStream, and the handling of the AbortError it causes, never set
\* error (so never make the session Failed), never make the session
\* Retrying, never change retryCount and never schedule a retry timer.
C6_StopIsSilent ==
  [][ (StopStep \/ AbortErrorNext) =>
        /\ error' => error
        /\ isRetrying' => isRetrying
        /\ retryCountRef' = retryCountRef
        /\ timers' \subseteq timers ]_vars

\* a streaming connection was stopped and its AbortError has been handled
C6_Witness ==
  /\ ~mounted /\ nretry = 0
  /\ \E i \in Att : pc[i] = "cancel"
  /\ ~error /\ ~isRetrying /\ retryCountRef = 0 /\ timers = {}

\* C7: a chunk that arrives while the session is paused leaves lines
\* unchanged.
C7_PausedChunkAppendsNothing ==
  [][ (isPaused /\ ChunkStep) => lines' = lines ]_vars

\* C8: a chunk that arrives while the session is not paused appends the
\* lines it completes, whatever connection delivers it.
C8_ResumedChunkAppends ==
  [][ (mounted /\ ~isPaused /\ ChunkStep)
        => lines' = lines \o ChunkLines(FALSE, bufferRef, Arrived) ]_vars

\* the text after the last line feed of w
Unterminated(w) ==
  LET nl == {k \in 1..Len(w) : w[k] = NL}
      last == IF nl = {} THEN 0 ELSE CHOOSE k \in nl : \A m \in nl : m <= k
  IN  SubSeq(w, last + 1, Len(w))

\* C9: no received byte is discarded, paused or not: the tail is the text
\* received after the last line feed.
C9_TailKeepsEveryByte == bufferRef = Unterminated(wire)

\* the number of line feeds of w
NumNL(w) == Cardinality({k \in 1..Len(w) : w[k] = NL})

\* the number of line feeds of w that end an empty or whitespace-only segment
NumBlank(w) ==
  Cardinality({k \in 1..Len(w) :
     /\ w[k] = NL
     /\ \E j \in 0..(k-1) :
          /\ j = 0 \/ w[j] = NL
          /\ \A m \in (j+1)..(k-1) : w[m] \in Whitespace \ {NL}})

\* C10 (as stated): text with K line feeds that does not end with a line feed
\* has appended exactly K lines.
C10_ExactlyKLines ==
  (wire /= << >> /\ wire[Len(wire)] /= NL) => Len(lines) = NumNL(wire)

\* C10 (amended): the lines appended are as many as the line feeds received
\* less those that end an empty or whitespace-only segment, and the
\* unterminated tail is kept back, not appended.
C10_NonBlankLines ==
  /\ Len(lines) = NumNL(wire) - NumBlank(wire)
  /\ bufferRef = Unterminated(wire)

\* text with two line feeds, one of them ending a blank segment, and a tail
C10_Witness ==
  /\ wire /= << >> /\ wire[Len(wire)] /= NL
  /\ NumNL(wire) = 2 /\ NumBlank(wire) = 1 /\ Len(lines) = 1

\* C11: line reassembly does not depend on where the text is cut into chunks:
\* however the text received since the last reset was cut, lines and tail
\* are what the same text gives when it arrives as one chunk.
C11_CutIndependent ==
  /\ lines = ChunkLines(FALSE, << >>, wire)
  /\ bufferRef = ChunkTail(FALSE, << >>, wire)

\* a line put together from two chunks, the second one leaving a tail
C11_Witness ==
  /\ nchunks = 2
  /\ lines = << << "a", "a" >> >>
  /\ bufferRef = << "a" >>

\* C12: the fragment a connection leaves in the tail is discarded before the
\* next connection delivers text: a connection that opens while no other
\* body is open starts with an empty tail.
C12_TailDiscardedAtEnd ==
  [][ \A i \in Att :
        (ResponseStep(i) /\ \A k \in Att \ {i} : conn[k] /= "open")
          => bufferRef' = << >> ]_vars

\* s is a prefix of t
IsPrefix(s, t) == Len(s) <= Len(t) /\ SubSeq(t, 1, Len(s)) = s

\* a step in which clear() runs
ClearStep == ncalls' /= ncalls /\ isPaused' = isPaused

\* a step in which retry() runs
RetryStep == nretry' /= nretry

\* C13: between two resets every change of lines is an append at the end:
\* the old value is a prefix of the new one; only clear() and retry() change
\* lines otherwise, and they empty it.
C13_AppendOnly ==
  [][ IF ClearStep \/ RetryStep
      THEN lines' = << >>
      ELSE /\ IsPrefix(lines, lines')
           /\ lines' /= lines => ChunkStep ]_vars

\* a second line has been appended behind the first, after a tuple change
C13_Witness == Len(lines) = 2 /\ session = 2 /\ ncalls = 0

\* C14: clear() empties lines and the tail and changes nothing else:
\* retryCount, isStreaming, isRetrying, error, the pause flag, the
\* connections and the retry timers stay as they are.
C14_ClearFrame ==
  [][ ClearStep =>
        /\ lines' = << >>
        /\ bufferRef' = << >>
        /\ UNCHANGED << retryCountRef, isStreaming, isRetrying, error, isPaused,
                        conn, pc, readq, readOn, microq, abortControllerRef,
                        readerRef, retryTimeoutRef, timers, delay, selected,
                        mounted >> ]_vars

\* clear() has emptied lines and tail of a session whose connection is open
C14_Witness ==
  /\ nchunks >= 1 /\ wire = << >> /\ lines = << >> /\ bufferRef = << >>
  /\ isStreaming /\ \E i \in Att : conn[i] = "open"

\* C15: retry() with a namespace and pod selected leaves retryCount 0, error
\* cleared, lines and tail empty, and exactly one connection alive with no
\* retry timer pending.
C15_RetryStartsAfresh ==
  [][ (RetryStep /\ selected) =>
        /\ retryCountRef' = 0 /\ ~error'
        /\ lines' = << >> /\ bufferRef' = << >>
        /\ Cardinality({i \in Att : conn'[i] \in {"fetching", "open"}}) = 1
        /\ timers' = {} ]_vars

C17_BackoffDelays ==
  [][ \A i \in Att :
        /\ (i \in timers' /\ i \notin timers) =>
              /\ consec' \in 1..3
              /\ delay'[i] = CASE consec' = 1 -> 1000
                               [] consec' = 2 -> 2000
                               [] consec' = 3 -> 4000
              /\ retryCountRef' = retryCountRef + 1
        /\ (i \in timers /\ i \notin timers' /\ ~StopStep) =>
              \E j \in Att : StartStep(j) ]_vars

\* a step in which exportLogs runs
ExportStep == nexport' /= nexport

\* C18: exportLogs changes nothing of the session, whatever the state and
\* the options: lines, tail, retryCount, isStreaming, isRetrying, error, the
\* pause flag, the connections and the retry timers are as before.
C18_ExportFrame ==
  [][ ExportStep =>
        UNCHANGED << lines, bufferRef, retryCountRef, isStreaming, isRetrying,
                     error, isPaused, conn, pc, readq, readOn, microq,
                     abortControllerRef, readerRef, retryTimeoutRef, timers,
                     delay, selected, mounted >> ]_vars

\* two lines, one of them with a timestamp, were exported without
\* timestamps and are still held
C18_Witness ==
  /\ downloads /= << >> /\ Len(lines) = 2
  /\ ~downloads[1].options.includeTimestamps
  /\ Len(downloads[1].body) = 2
  /\ \E k \in 1..2 : MatchesTimestamp(lines[k])

\* C19: exportLogs called while lines is empty hands no document to the
\* browser, returns, and changes nothing of the session.
C19_EmptyExport ==
  [][ (ExportStep /\ lines = << >>) =>
        /\ downloads' = downloads
        /\ UNCHANGED << lines, bufferRef, retryCountRef, isStreaming,
                        isRetrying, error, isPaused, conn, pc, readq, microq,
                        abortControllerRef, readerRef, retryTimeoutRef,
                        timers >> ]_vars

\* exportLogs was called before any line arrived
C19_Witness == nexport = 1 /\ lines = << >> /\ downloads = << >>

\* the line starts with a timestamp that whitespace follows
StartsWithTimestamp(line) ==
  Len(line) >= 2 /\ line[1] = TS /\ line[2] \in {" ", CR}

\* C20: the body of an exported document has one entry for each element of
\* lines, in order: the line itself with includeTimestamps, else the message
\* part of a line that starts with a timestamp followed by whitespace and
\* the whole line otherwise.
C20_BodyEntries ==
  [][ downloads' /= downloads =>
        LET d == downloads'[Len(downloads')] IN
        /\ Len(d.body) = Len(lines)
        /\ \A k \in 1..Len(lines) :
              d.body[k] =
                IF d.options.includeTimestamps THEN lines[k]
                ELSE IF StartsWithTimestamp(lines[k])
                     THEN SubSeq(lines[k], MessageStart(lines[k]), Len(lines[k]))
                     ELSE lines[k] ]_vars

\* the keys of the query parameters of the URL fetched last
UrlKeys == {p[1] : p \in url}

\* C21: every streaming URL holds follow=true and timestamps=true and at
\* most one of sinceSeconds and sinceTime, whatever the options are.
C21_UrlParameters ==
  url /= {} =>
    /\ << "follow", "true" >> \in url
    /\ << "timestamps", "true" >> \in url
    /\ ~({"sinceSeconds", "sinceTime"} \subseteq UrlKeys)

\* what LogViewer renders from the hook's state
View ==
  IF ~selected THEN "select"
  ELSE IF error THEN "failure"
  ELSE IF isStreaming /\ ~isRetrying THEN "streaming"
  ELSE IF isRetrying THEN "reconnecting"
  ELSE "connecting"

\* C22: while a retry timer is pending the session is presented as Retrying:
\* isRetrying is true and the viewer shows the reconnecting indicator, not
\* the failure view.
C22_RetryingWhileTimerPending ==
  (mounted /\ selected /\ timers /= {})
    => (isRetrying /\ View = "reconnecting")

\* a limit on the lines a session retains, as the README announces it; the
\* hook has no such setting, so any number stands for it
BufferLimit == 2

\* C23: the number of lines retained never exceeds the buffer limit.
C23_LinesWithinLimit == Len(lines) <= BufferLimit

\* a step in which the tuple changes
TupleStep == session' /= session

\* C24: a tuple change to a selected namespace and pod aborts the old
\* connection and starts a new one, the only one alive afterwards, and
\* leaves lines as they are.
C24_TupleChangeKeepsLines ==
  [][ (TupleStep /\ selected') =>
        /\ lines' = lines
        /\ abortControllerRef /= 0 => conn'[abortControllerRef] = "none"
        /\ \E j \in Att : StartStep(j) /\ abortControllerRef' = j
        /\ {i \in Att : conn'[i] \in {"fetching", "open"}}
             = {abortControllerRef'} ]_vars

\* the tuple of a streaming session that holds a line has changed: its
\* connection was aborted, the next one is being opened
C24_Witness ==
  /\ session = 2 /\ Len(lines) = 1
  /\ AbortErrorNext
  /\ \E j \in Att : pc[j] = "fetch" /\ conn[j] = "fetching"
                       /\ abortControllerRef = j

\* stopStream, called now, would cancel no timer, abort no controller and
\* change nothing
StopChangesNothing ==
  /\ retryTimeoutRef = 0
  /\ StopAbortTarget = 0
  /\ timers \ StopClearedTimers = timers
  /\ AbortConn(conn, StopAbortTarget) = conn
  /\ AbortWake(StopAbortTarget) = << >>
  /\ AbortReadq(StopAbortTarget) = readq
  /\ ~isStreaming /\ ~isRetrying

\* C25: right after stopStream (not followed by a start) a second call of
\* stopStream changes nothing: it cancels no timer and aborts no controller.
C25_StopIdempotent ==
  [][ (StopStep /\ ~(mounted' /\ selected')) => StopChangesNothing' ]_vars

\* the first stopStream of an unmount has aborted a live connection; the
\* second one, of the other cleanup, finds nothing to do
C25_Witness ==
  /\ ~mounted /\ AbortErrorNext /\ AliveSet = {}
  /\ StopChangesNothing

\* C26: once the retries are exhausted and the session is Failed, no retry
\* timer is pending and no connection is alive, and no attempt starts and
\* no timer is scheduled until retry() is called or the tuple changes.
C26_FailedIsTerminal ==
  [][ (mounted /\ selected /\ microq = << >> /\ Failed
         /\ retryCountRef = MAX_RETRIES) =>
        /\ timers = {} /\ AliveSet = {}
        /\ (\E i \in Att : StartStep(i) \/ (i \in timers' /\ i \notin timers))
             => (RetryStep \/ TupleStep) ]_vars

\* C27 (as stated): isStreaming becomes true only after a chunk has been
\* delivered: obtaining the response leaves it as it was.
C27_StreamingAfterFirstChunk ==
  [][ \A i \in Att : ResponseStep(i) => isStreaming' = isStreaming ]_vars

\* C27 (amended): isStreaming becomes true when an attempt obtains an ok
\* response with a body, before any chunk is read, and at no other step.
C27_StreamingOnResponse ==
  [][ /\ \A i \in Att : (mounted /\ ResponseStep(i)) => isStreaming'
      /\ (~isStreaming /\ isStreaming') => \E i \in Att : ResponseStep(i) ]_vars

\* the session is streaming on a connection that has delivered no chunk
C27_Witness ==
  /\ mounted /\ isStreaming /\ nchunks = 0 /\ wire = << >>
  /\ \E i \in Att : pc[i] = "read" /\ conn[i] = "open" /\ readerRef = i

\* a step in which an await of an attempt fails with an error that is not
\* an AbortError: the fetch rejects, the response is not ok or has no body
\* (no microtask pending, the attempt leaves its fetch), a read rejects (the
\* microtask resumes the attempt with the failure), or read() throws (no
\* microtask pending, the attempt leaves its read loop)
FailureHandled ==
  \/ microq /= << >> /\ Head(microq).o = "fail"
  \/ /\ microq = << >>
     /\ \E i \in Att : pc[i] \in {"fetch", "read"} /\ pc'[i] \in {"idle", "cancel"}

\* C28: every failure that is not a cancellation sets error and does exactly
\* one of two things: with retryCount < 3 it schedules exactly one retry
\* timer (and counts it), with retryCount = 3 it makes the session Failed
\* and schedules none.
C28_FailureAlwaysHandled ==
  [][ FailureHandled =>
        /\ mounted => error'
        /\ timers \subseteq timers'
        /\ \/ /\ retryCountRef < MAX_RETRIES
              /\ Cardinality(timers' \ timers) = 1
              /\ retryCountRef' = retryCountRef + 1
              /\ mounted => isRetrying'
           \/ /\ retryCountRef = MAX_RETRIES
              /\ timers' = timers
              /\ retryCountRef' = retryCountRef
              /\ mounted => (~isStreaming' /\ ~isRetrying') ]_vars

\* the second failure in a row has scheduled the second retry
C28_Witness ==
  /\ mounted /\ error /\ isRetrying /\ retryCountRef = 2
  /\ Cardinality(timers) = 1 /\ AliveSet = {} /\ microq = << >>

\* C29: when every attempt fails without delivering a chunk (a response
\* that fails at its first read included) and the user does nothing, the
\* session is eventually Failed for good, nothing pending.
C29_EventuallyFailed ==
  <>[](Failed /\ timers = {} /\ AliveSet = {} /\ microq = << >>)

\* C30: while the namespace or the pod is empty no connection is opened and
\* no retry timer is scheduled.
C30_NothingWhileUnselected ==
  [][ \A i \in Att :
        (StartStep(i) \/ (i \in timers' /\ i \notin timers)) => selected' ]_vars

\* C31: retryCount is in 0..3 in every reachable state.
C31_RetryCountInRange == retryCountRef \in 0..MAX_RETRIES

\* retryCount is 3 with a retry timer pending while the attempt retry()
\* started is still connecting: its failure will find the count at 3
C31_Witness ==
  /\ retryCountRef = MAX_RETRIES /\ nretry = 1
  /\ timers /= {} /\ AliveSet /= {} /\ microq = << >>

\* C32: no element of lines is empty or whitespace-only.
C32_NoBlankLine ==
  \A k \in 1..Len(lines) :
     \E m \in 1..Len(lines[k]) : lines[k][m] \notin Whitespace

\* two lines were appended and two segments, an empty one or one of spaces,
\* were dropped
C32_Witness ==
  /\ Len(lines) = 2 /\ NumBlank(wire) = 2 /\ bufferRef = << >>
  /\ \E k \in 1..Len(wire) : wire[k] = " "

\* C33: whenever the session reports isStreaming and not isRetrying, a
\* connection of the session is alive.
C33_StreamingHasConnection ==
  (mounted /\ microq = << >> /\ isStreaming /\ ~isRetrying)
    => \E i \in Att : Alive(i) /\ sess[i] = session

\* C34: isRetrying is true exactly when a retry timer is pending.
C34_RetryingIffTimerPending ==
  (mounted /\ microq = << >>) => (isRetrying <=> timers /= {})

\* C35: a session created by a tuple change starts with retryCount = 0,
\* so its first failure schedules a retry.
C35_NewSessionStartsAtZero ==
  [][ /\ (TupleStep /\ selected') => retryCountRef' = 0
      /\ (FailureHandled /\ mounted /\ consec = 0) => isRetrying' ]_vars

\* a step in which attempt i enters its finally block with a reader in
\* readerRef.current and cancels it
CancelStep(i) == pc[i] /= "cancel" /\ pc'[i] = "cancel"

\* C36: the finally block of an attempt never cancels the reader of a newer
\* attempt, and never clears readerRef when it holds one: the reader it
\* cancels is not that of the attempt started last (the one whose
\* controller abortControllerRef holds) unless that attempt is itself.
C36_FinallySparesNewerReader ==
  [][ \A i \in Att :
        /\ CancelStep(i) => ~(readerRef /= i /\ readerRef = abortControllerRef)
        /\ (pc[i] = "cancel" /\ pc'[i] = "idle" /\ readerRef /= i)
             => readerRef' = readerRef ]_vars

====
